---------------------------- MODULE Spec2Model ----------------------------
(***************************************************************************)
(* A model of the ProofGate SDK client (src/unnamed/part_000): the         *)
(* constructor, the five public operations, the shared request routine     *)
(* with its timeout timer, and the transport the routine talks to.         *)
(*                                                                         *)
(* JavaScript values.  An optional value is a set with at most one         *)
(* element: {} is `undefined` (or an absent key), {v} is the value v.      *)
(* Strings that the code inspects or concatenates character by character   *)
(* (the API key, wallet addresses, ids, URLs) are sequences of pieces;     *)
(* opaque strings are TLA+ strings.                                        *)
(***************************************************************************)
EXTENDS Integers, Sequences, FiniteSets, TLC

VARIABLES
    input,   \* the caller's config object handed to the constructor
    client,  \* the ProofGate instance: construction state, error, this.config
    calls,   \* one record per call of a public operation: the locals of the
             \* operation and of request(), the timer, the requests it sent
    signer   \* the example signer service built on the client: one record
             \* per POST /execute request it handles

vars == <<input, client, calls, signer>>

-----------------------------------------------------------------------------
(* Bounds of the model *)

\* API keys are the strings over KeyChars of length at most MaxKeyLen.
MaxKeyLen == 4
\* Chain ids given by callers are 0..MaxChainId.
MaxChainId == 1
\* Concurrent calls on one client instance (specification SpecConc).
MaxCalls == 2

\* Longest argument of a lookup whose characters are enumerated.
MaxIdLen == 2

-----------------------------------------------------------------------------
(* JavaScript values *)

None == {}
Some(v) == {v}
The(o) == CHOOSE v \in o : TRUE

\* JavaScript truthiness of an optional string / an optional number.
TruthyStr(o) == o # None /\ o # Some("")
TruthyNum(o) == o # None /\ o # Some(0)

\* a || b
OrStr(a, b) == IF TruthyStr(a) THEN a ELSE b
OrNum(a, b) == IF TruthyNum(a) THEN a ELSE b

\* All sequences over S of length at most n.
SeqUpTo(S, n) == UNION {[1..k -> S] : k \in 0..n}

\* String.prototype.startsWith
StartsWith(s, prefix) ==
    /\ Len(s) >= Len(prefix)
    /\ SubSeq(s, 1, Len(prefix)) = prefix

-----------------------------------------------------------------------------
(* ProofGateError and the other errors a call can end with *)

NoError ==
    [name |-> "none", message |-> None, code |-> "",
     statusCode |-> None, validationResult |-> None]

\* new ProofGateError(message, code, statusCode, validationResult)
ProofGateError(message, code, statusCode, validationResult) ==
    [name |-> "ProofGateError", message |-> message, code |-> code,
     statusCode |-> statusCode, validationResult |-> validationResult]

\* An error of the runtime or the transport: TypeError, SyntaxError, AbortError.
RuntimeError(name, message) ==
    [name |-> name, message |-> Some(message), code |-> "",
     statusCode |-> None, validationResult |-> None]

-----------------------------------------------------------------------------
(* Construction *)

DefaultBaseUrl == <<"https://www.proofgate.xyz/api">>
DefaultChainId == 56
DefaultTimeout == 30000

ApiKeyPrefix == <<"p", "g", "_">>
KeyChars == {"p", "g", "_", "x"}

\* !config.apiKey : the key is absent or the empty string
MissingApiKey(cfg) == cfg.apiKey = None \/ cfg.apiKey = Some(<<>>)

\* !config.apiKey.startsWith('pg_')
InvalidApiKey(cfg) == ~StartsWith(The(cfg.apiKey), ApiKeyPrefix)

\* The prefix check made first: an empty key is then reported as malformed.
ConstructorCheckPrefixFirst(cfg) ==
    IF cfg.apiKey = None \/ InvalidApiKey(cfg)
    THEN ProofGateError(Some("Invalid API key format. Keys start with \"pg_\""),
                        "INVALID_API_KEY", None, None)
    ELSE NoError

\* The two guards at the top of the constructor; NoError when both pass.
ConstructorCheck(cfg) ==
    IF MissingApiKey(cfg)
    THEN ProofGateError(
             Some("API key is required. Get one at https://www.proofgate.xyz/dashboard"),
             "MISSING_API_KEY", None, None)
    ELSE IF InvalidApiKey(cfg)
    THEN ProofGateError(Some("Invalid API key format. Keys start with \"pg_\""),
                        "INVALID_API_KEY", None, None)
    ELSE NoError

\* { baseUrl: ..., chainId: 56, timeout: 30000, ...config }
MergeConfig(cfg) ==
    [apiKey      |-> cfg.apiKey,
     baseUrl     |-> IF cfg.baseUrl = None THEN Some(DefaultBaseUrl) ELSE cfg.baseUrl,
     chainId     |-> IF cfg.chainId = None THEN Some(DefaultChainId) ELSE cfg.chainId,
     guardrailId |-> cfg.guardrailId,
     timeout     |-> IF cfg.timeout = None THEN Some(DefaultTimeout) ELSE cfg.timeout]

NoConfig ==
    [apiKey |-> None, baseUrl |-> None, chainId |-> None,
     guardrailId |-> None, timeout |-> None]

NotConstructed == [state |-> "none", error |-> NoError, config |-> NoConfig]

\* new ProofGate(cfg): the instance, or the error the constructor throws.
New(cfg) ==
    LET e == ConstructorCheck(cfg) IN
    IF e # NoError
    THEN [state |-> "failed", error |-> e, config |-> NoConfig]
    ELSE [state |-> "ok", error |-> NoError, config |-> MergeConfig(cfg)]

\* The config objects handed to the constructor.
ApiKeys == {None} \cup {Some(k) : k \in SeqUpTo(KeyChars, MaxKeyLen)}
ChainIdOptions == {None} \cup {Some(n) : n \in 0..MaxChainId}
CtorConfigs ==
    [apiKey      : ApiKeys,
     baseUrl     : {None, Some(<<"http://mock">>)},
     chainId     : ChainIdOptions,
     guardrailId : {None, Some(""), Some("g1")},
     timeout     : {None, Some(0), Some(-1), Some(1000)}]

\* The configs of the clients whose calls are modelled: one valid key.
ClientConfigs ==
    [apiKey      : {Some(ApiKeyPrefix \o <<"x">>)},
     baseUrl     : {None, Some(<<"http://mock">>)},
     chainId     : ChainIdOptions,
     guardrailId : {None, Some(""), Some("g1")},
     timeout     : {None}]

-----------------------------------------------------------------------------
(* Requests, responses and results *)

\* A ValidateRequest without the optional fields, used as the shape of "no request".
NoArgs == [request |-> None, id |-> None]

\* The body of a response as the transport delivers it.  kind "object" is a
\* JSON object with the fields shown (None: the key is absent), kind "null"
\* the JSON value null, kind "unparseable" a body that is not JSON.
Body(kind, safe, reason, error, message, validationId) ==
    [kind |-> kind, safe |-> safe, reason |-> reason, error |-> error,
     message |-> message, validationId |-> validationId]

NullBody == Body("null", None, None, None, None, None)
UnparseableBody == Body("unparseable", None, None, None, None, None)

\* response.ok
Ok(status) == status >= 200 /\ status <= 299

\* What a call has produced so far.
Pending == [kind |-> "pending", value |-> None, error |-> NoError]
Return(v) == [kind |-> "return", value |-> Some(v), error |-> NoError]
Throw(e) == [kind |-> "throw", value |-> None, error |-> e]

IdleCall ==
    [op |-> "none", args |-> NoArgs, pc |-> "idle", timer |-> "unset",
     aborted |-> FALSE, sent |-> <<>>, response |-> None, result |-> Pending,
     outcome |-> Pending]

Ops == {"validate", "validateOrThrow", "checkAgent", "getEvidence", "getUsage"}

-----------------------------------------------------------------------------
(* The public operations: the path and options each hands to request() *)

\* validate() falling back to the library's defaults instead of this.config.
ValidateOptionsLibraryDefaults(config, request) ==
    [path   |-> <<"/validate">>,
     method |-> Some("POST"),
     body   |-> Some([from        |-> request.from,
                      to          |-> request.to,
                      data        |-> request.data,
                      value       |-> OrStr(request.value, Some("0")),
                      guardrailId |-> OrStr(request.guardrailId, None),
                      chainId     |-> OrNum(request.chainId, Some(DefaultChainId))])]

\* validate() sending the request's value as it is, with no default.
ValidateOptionsNoValueDefault(config, request) ==
    [path   |-> <<"/validate">>,
     method |-> Some("POST"),
     body   |-> Some([from        |-> request.from,
                      to          |-> request.to,
                      data        |-> request.data,
                      value       |-> request.value,
                      guardrailId |-> OrStr(request.guardrailId, config.guardrailId),
                      chainId     |-> OrNum(request.chainId, config.chainId)])]

\* validate(): POST /validate with the six fields; a field that is undefined
\* is dropped by JSON.stringify.
ValidateOptions(config, request) ==
    [path   |-> <<"/validate">>,
     method |-> Some("POST"),
     body   |-> Some([from        |-> request.from,
                      to          |-> request.to,
                      data        |-> request.data,
                      value       |-> OrStr(request.value, Some("0")),
                      guardrailId |-> OrStr(request.guardrailId, config.guardrailId),
                      chainId     |-> OrNum(request.chainId, config.chainId)])]

\* checkAgent(wallet): GET /agents/check?wallet=${wallet}
CheckAgentOptions(wallet) ==
    [path |-> <<"/agents/check?wallet=">> \o wallet, method |-> None, body |-> None]

\* getEvidence(validationId): GET /evidence/${validationId}
GetEvidenceOptions(validationId) ==
    [path |-> <<"/evidence/">> \o validationId, method |-> None, body |-> None]

\* getUsage(wallet): GET /validate?wallet=${wallet}
GetUsageOptions(wallet) ==
    [path |-> <<"/validate?wallet=">> \o wallet, method |-> None, body |-> None]

OptionsOf(op, args, config) ==
    CASE op \in {"validate", "validateOrThrow"} ->
             ValidateOptions(config, The(args.request))
      [] op = "checkAgent"  -> CheckAgentOptions(The(args.id))
      [] op = "getEvidence" -> GetEvidenceOptions(The(args.id))
      [] op = "getUsage"    -> GetUsageOptions(The(args.id))

-----------------------------------------------------------------------------
(* request(): the shared request routine *)

\* A fetch() call that leaves the method to fetch's default.
FetchArgsDefaultMethod(config, options) ==
    [url     |-> The(config.baseUrl) \o options.path,
     method  |-> "GET",
     headers |-> [contentType |-> "application/json", apiKey |-> The(config.apiKey)],
     body    |-> options.body]

\* The arguments of fetch(): url, method, headers, body.
FetchArgs(config, options) ==
    [url     |-> The(config.baseUrl) \o options.path,
     method  |-> The(OrStr(options.method, Some("GET"))),
     headers |-> [contentType |-> "application/json", apiKey |-> The(config.apiKey)],
     body    |-> options.body]

\* setTimeout(() => controller.abort(), this.config.timeout)
SetTimeout == "armed"

\* A finally block that leaves the timer armed.
ClearTimeoutNoop(timer) == timer

\* clearTimeout(timeout): a timer that has fired or was cleared is left as it is.
ClearTimeout(timer) == IF timer = "armed" THEN "cleared" ELSE timer

\* `HTTP ${response.status}`
HttpStatusMessage(status) == "HTTP " \o ToString(status)

\* A !response.ok branch that prefers data.message to data.error.
AfterJsonMessageFirst(response, data) ==
    IF ~Ok(response.status)
    THEN IF data.kind = "null"
         THEN Throw(RuntimeError("TypeError",
                                 "Cannot read properties of null (reading 'error')"))
         ELSE Throw(ProofGateError(
                  OrStr(OrStr(data.message, data.error),
                        Some(HttpStatusMessage(response.status))),
                  "API_ERROR", Some(response.status), None))
    ELSE Return(data)

\* A success branch that hands on the verdict without its reason.
AfterJsonWithoutReason(response, data) ==
    IF ~Ok(response.status)
    THEN IF data.kind = "null"
         THEN Throw(RuntimeError("TypeError",
                                 "Cannot read properties of null (reading 'error')"))
         ELSE Throw(ProofGateError(
                  OrStr(OrStr(data.error, data.message),
                        Some(HttpStatusMessage(response.status))),
                  "API_ERROR", Some(response.status), None))
    ELSE Return(IF data.kind = "object" THEN [data EXCEPT !.reason = None] ELSE data)

\* The try block after `data = await response.json()`: the !response.ok branch
\* reads data.error, which throws a TypeError when data is null.
AfterJson(response, data) ==
    IF ~Ok(response.status)
    THEN IF data.kind = "null"
         THEN Throw(RuntimeError("TypeError",
                                 "Cannot read properties of null (reading 'error')"))
         ELSE Throw(ProofGateError(
                  OrStr(OrStr(data.error, data.message),
                        Some(HttpStatusMessage(response.status))),
                  "API_ERROR", Some(response.status), None))
    ELSE Return(data)

\* A catch block that reports every other error as an API error.
CatchAsApiError(error) ==
    IF error.name = "AbortError"
    THEN ProofGateError(Some("Request timeout"), "TIMEOUT", None, None)
    ELSE IF error.name = "ProofGateError"
    THEN error
    ELSE ProofGateError(error.message, "API_ERROR", None, None)

\* A catch block without the AbortError case.
CatchNoAbort(error) ==
    IF error.name = "ProofGateError"
    THEN error
    ELSE ProofGateError(error.message, "NETWORK_ERROR", None, None)

\* The catch block: what request() throws for an error caught in the try block.
Catch(error) ==
    IF error.name = "AbortError"
    THEN ProofGateError(Some("Request timeout"), "TIMEOUT", None, None)
    ELSE IF error.name = "ProofGateError"
    THEN error
    ELSE ProofGateError(error.message, "NETWORK_ERROR", None, None)

\* try { ... } catch (error) { ... } around a completion of the try block.
TryCatch(completion) ==
    IF completion.kind = "throw" THEN Throw(Catch(completion.error)) ELSE completion

-----------------------------------------------------------------------------
(* What each public operation does with the completion of request() *)

\* validateOrThrow(): `!result.safe` on the value validate() returned.
ValidateOrThrowResult(completion) ==
    IF completion.kind = "throw"
    THEN completion
    ELSE LET result == The(completion.value) IN
         IF result.kind = "null"
         THEN Throw(RuntimeError("TypeError",
                                 "Cannot read properties of null (reading 'safe')"))
         ELSE IF result.safe # Some(TRUE)
         THEN Throw(ProofGateError(result.reason, "VALIDATION_FAILED", None,
                                   Some(result)))
         ELSE Return(result)

\* A validate() that raises on an unsafe result just as validateOrThrow() does.
OpResultValidateThrows(op, completion) ==
    IF op \in {"validate", "validateOrThrow"}
    THEN ValidateOrThrowResult(completion) ELSE completion

\* validate(), checkAgent(), getEvidence(), getUsage() return what request() gave.
OpResult(op, completion) ==
    IF op = "validateOrThrow" THEN ValidateOrThrowResult(completion) ELSE completion

-----------------------------------------------------------------------------
(* The transport: the responses a request can get *)

Statuses == {200, 429}

\* The mocked service names the request it answers in validationId: the sender
\* of a validation, the URL of a lookup.
RequestKey(q) == IF q.body = None THEN q.url ELSE The(q.body).from

ObjectBodies(q) ==
    {Body("object", safe, Some("policy violation"), error, message, Some(RequestKey(q))) :
        safe \in {None, Some(TRUE), Some(FALSE)},
        error \in {None, Some(""), Some("rate limited")},
        message \in {None, Some("slow down")}}

Responses(q) ==
    [status : Statuses, body : ObjectBodies(q) \cup {NullBody, UnparseableBody}]

\* The responses of the concurrent scenario: a verdict, a rate limit, or a
\* gateway's error page.
ConcResponses(q) ==
    {[status |-> 200,
      body |-> Body("object", Some(safe), Some("policy violation"), None, None,
                    Some(RequestKey(q)))] : safe \in BOOLEAN}
    \cup {[status |-> 429,
           body |-> Body("object", None, None, Some("rate limited"), None, None)],
          [status |-> 502, body |-> UnparseableBody]}

-----------------------------------------------------------------------------
(* The arguments callers pass *)

Wallet(n) == <<"0", "x", ToString(n)>>
TargetContract == <<"0", "x", "c">>
Calldata == <<"0", "x", "a", "9">>

ValidateRequests ==
    [from        : {Wallet(1)},
     to          : {TargetContract},
     data        : {Calldata},
     value       : {None, Some(""), Some("5")},
     guardrailId : {None, Some(""), Some("g2")},
     chainId     : ChainIdOptions]

ArgsOf(op) ==
    IF op \in {"validate", "validateOrThrow"}
    THEN {[request |-> Some(r), id |-> None] : r \in ValidateRequests}
    ELSE {[request |-> None, id |-> Some(w)] : w \in {Wallet(1), Wallet(2)}}

\* In the concurrent scenario call c acts for wallet c.
ConcArgsOf(c, op) ==
    IF op \in {"validate", "validateOrThrow"}
    THEN {[request |-> Some([from |-> Wallet(c), to |-> TargetContract,
                             data |-> Calldata, value |-> None,
                             guardrailId |-> None, chainId |-> None]),
           id |-> None]}
    ELSE {[request |-> None, id |-> Some(Wallet(c))]}

-----------------------------------------------------------------------------
(* URLs on the wire: what fetch() sends for a URL string and what the       *)
(* receiving side reads back from it                                        *)

\* The characters an argument is made of: a plain one and the reserved ones.
UrlChars == {"a", "/", "?", "#", "&", "%", " "}

UrlIds == SeqUpTo(UrlChars, MaxIdLen) \ {<<>>}

HexDigits == {"0", "1", "2", "3", "4", "5", "6", "7", "8", "9",
              "a", "b", "c", "d", "e", "f"}

\* The part of s before the first piece that is in stops.
RECURSIVE Before(_, _)
Before(s, stops) ==
    IF s = <<>> \/ Head(s) \in stops THEN <<>>
    ELSE <<Head(s)>> \o Before(Tail(s), stops)

\* fetch(url) parses the string as a URL: the fragment, from the first '#',
\* is not part of the request, and a space is sent as %20.
RECURSIVE EncodeSpaces(_)
EncodeSpaces(s) ==
    IF s = <<>> THEN <<>>
    ELSE (IF Head(s) = " " THEN <<"%", "2", "0">> ELSE <<Head(s)>>)
             \o EncodeSpaces(Tail(s))

RequestTarget(url) == EncodeSpaces(Before(url, {"#"}))

\* Percent-decoding: %20 is a space, any other % followed by two hex digits
\* is the byte they name (written "?byte"), a % followed by anything else
\* stays as it is.
RECURSIVE PercentDecode(_)
PercentDecode(s) ==
    IF s = <<>> THEN <<>>
    ELSE IF Head(s) = "%" /\ Len(s) >= 3 /\ s[2] \in HexDigits /\ s[3] \in HexDigits
         THEN <<IF s[2] = "2" /\ s[3] = "0" THEN " " ELSE "?byte">>
                  \o PercentDecode(SubSeq(s, 4, Len(s)))
         ELSE <<Head(s)>> \o PercentDecode(Tail(s))

\* The pieces of a request target after the base URL and the literal part of
\* the path, where the operation's argument was appended.
AfterLiteral(target) == SubSeq(target, 3, Len(target))

\* GET <base>/agents/check?wallet=<...>: the value of the wallet parameter
\* ends at the next '&'.
ReceivedWallet(url) ==
    PercentDecode(Before(AfterLiteral(RequestTarget(url)), {"&"}))

\* GET <base>/evidence/<...>: the path segment ends at the next '/' or at the
\* '?' that starts the query.
ReceivedEvidenceId(url) ==
    PercentDecode(Before(AfterLiteral(RequestTarget(url)), {"/", "?"}))

-----------------------------------------------------------------------------
(* Actions *)

\* The request call c has on the wire.
LastSent(c) == calls[c].sent[Len(calls[c].sent)]

\* A response kept in a field of the instance: a call reads the response of
\* another call in flight when there is one.
ResponseOfShared(c) ==
    IF \E d \in DOMAIN calls : d # c /\ calls[d].response # None
    THEN The(calls[CHOOSE d \in DOMAIN calls : d # c /\ calls[d].response # None].response)
    ELSE The(calls[c].response)

\* The response call c reads: the local `response` of its own request().
ResponseOf(c) == The(calls[c].response)

\* The controller a timer's callback aborts: the one of the call that armed it.
AbortTarget(c) == c

\* A validate() that keeps the chain id and the guardrail id it resolved as
\* the client's new defaults.
CallStoringOverride(c, op, args) ==
    LET options == OptionsOf(op, args, client.config) IN
    /\ client.state = "ok"
    /\ calls[c].pc = "idle"
    /\ calls' = [calls EXCEPT ![c] =
                   [op |-> op, args |-> args, pc |-> "fetching",
                    timer |-> SetTimeout, aborted |-> FALSE,
                    sent |-> Append(calls[c].sent, FetchArgs(client.config, options)),
                    response |-> None, result |-> Pending, outcome |-> Pending]]
    /\ client' = IF op \in {"validate", "validateOrThrow"}
                 THEN [client EXCEPT
                         !.config.chainId = The(options.body).chainId,
                         !.config.guardrailId = The(options.body).guardrailId]
                 ELSE client
    /\ UNCHANGED <<input, signer>>

\* A public operation is called: request() builds the URL, arms the timer and
\* issues fetch(), then waits for the response.
Call(c, op, args) ==
    /\ client.state = "ok"
    /\ calls[c].pc = "idle"
    /\ calls' = [calls EXCEPT ![c] =
                   [op |-> op, args |-> args, pc |-> "fetching",
                    timer |-> SetTimeout, aborted |-> FALSE,
                    sent |-> Append(calls[c].sent,
                                    FetchArgs(client.config,
                                              OptionsOf(op, args, client.config))),
                    response |-> None, result |-> Pending, outcome |-> Pending]]
    /\ UNCHANGED <<input, client, signer>>

\* A request routine that goes back to issue the request again after a failure.
CompleteRetry(c, completion) ==
    /\ calls' = [calls EXCEPT ![c].pc = IF completion.kind = "throw"
                                        THEN "idle" ELSE "done",
                              ![c].timer = ClearTimeout(@),
                              ![c].result = completion,
                              ![c].outcome = OpResult(calls[c].op, completion)]
    /\ UNCHANGED <<input, client, signer>>

\* request() is left with `completion`: the finally block clears the timer and
\* the public operation finishes with its result.
Complete(c, completion) ==
    /\ calls' = [calls EXCEPT ![c].pc = "done",
                              ![c].timer = ClearTimeout(@),
                              ![c].result = completion,
                              ![c].outcome = OpResult(calls[c].op, completion)]
    /\ UNCHANGED <<input, client, signer>>

\* The response (status line and headers) arrives: fetch() resolves and the
\* routine starts reading the body with response.json().
FetchResolve(c, r) ==
    /\ calls[c].pc = "fetching"
    /\ ~calls[c].aborted
    /\ calls' = [calls EXCEPT ![c].pc = "reading", ![c].response = Some(r)]
    /\ UNCHANGED <<input, client, signer>>

\* The transport fails: fetch() rejects with a TypeError.
FetchReject(c) ==
    /\ calls[c].pc = "fetching"
    /\ ~calls[c].aborted
    /\ Complete(c, TryCatch(Throw(RuntimeError("TypeError", "fetch failed"))))

\* The configured duration elapses: the timer's callback aborts the controller.
TimerFire(c) ==
    /\ calls[c].timer = "armed"
    /\ calls' = [calls EXCEPT ![c].timer = "fired",
                              ![AbortTarget(c)].aborted = TRUE]
    /\ UNCHANGED <<input, client, signer>>

\* The aborted fetch() or response.json() rejects with an AbortError.
AbortReject(c) ==
    /\ calls[c].pc \in {"fetching", "reading"}
    /\ calls[c].aborted
    /\ Complete(c, TryCatch(Throw(RuntimeError("AbortError",
                                               "This operation was aborted"))))

\* response.json() resolves with the parsed body.
JsonResolve(c) ==
    /\ calls[c].pc = "reading"
    /\ ~calls[c].aborted
    /\ ResponseOf(c).body.kind # "unparseable"
    /\ Complete(c, TryCatch(AfterJson(ResponseOf(c), ResponseOf(c).body)))

\* response.json() rejects with a SyntaxError: the body is not JSON.
JsonReject(c) ==
    /\ calls[c].pc = "reading"
    /\ ~calls[c].aborted
    /\ ResponseOf(c).body.kind = "unparseable"
    /\ Complete(c, TryCatch(Throw(RuntimeError("SyntaxError",
                                               "Unexpected token in JSON"))))

-----------------------------------------------------------------------------
(* Specifications *)

NoCalls == <<>>

\* The client used on its own: no signer service handles requests.
NoExecutes == <<>>

InitCtor ==
    /\ input \in CtorConfigs
    /\ client = NotConstructed
    /\ calls = NoCalls
    /\ signer = NoExecutes

\* new ProofGate(input)
Construct ==
    /\ client.state = "none"
    /\ client' = New(input)
    /\ UNCHANGED <<input, calls, signer>>

NextCtor == Construct

SpecCtor == InitCtor /\ [][NextCtor]_vars

\* One client, one call, every request and every response.
OneCall == {1}

Init ==
    /\ input \in ClientConfigs
    /\ client = New(input)
    /\ calls = [c \in OneCall |-> IdleCall]
    /\ signer = NoExecutes

Next ==
    \/ \E c \in DOMAIN calls, op \in Ops : \E a \in ArgsOf(op) : Call(c, op, a)
    \/ \E c \in DOMAIN calls :
          /\ calls[c].pc = "fetching"
          /\ \E r \in Responses(LastSent(c)) : FetchResolve(c, r)
    \/ \E c \in DOMAIN calls : FetchReject(c)
    \/ \E c \in DOMAIN calls : TimerFire(c)
    \/ \E c \in DOMAIN calls : AbortReject(c)
    \/ \E c \in DOMAIN calls : JsonResolve(c)
    \/ \E c \in DOMAIN calls : JsonReject(c)

Spec == Init /\ [][Next]_vars

\* The event loop runs every callback that is due: an armed timer fires once
\* its (finite) duration has elapsed, and the rejection of an aborted fetch()
\* or response.json() is delivered to the routine awaiting it.
FairSpec ==
    /\ Spec
    /\ \A c \in OneCall : WF_vars(TimerFire(c)) /\ WF_vars(AbortReject(c))

\* One client with the default configuration, MaxCalls concurrent calls.
ConcConfig ==
    [apiKey |-> Some(ApiKeyPrefix \o <<"x">>), baseUrl |-> None, chainId |-> None,
     guardrailId |-> None, timeout |-> None]

InitConc ==
    /\ input = ConcConfig
    /\ client = New(input)
    /\ calls = [c \in 1..MaxCalls |-> IdleCall]
    /\ signer = NoExecutes

NextConc ==
    \/ \E c \in DOMAIN calls, op \in Ops : \E a \in ConcArgsOf(c, op) : Call(c, op, a)
    \/ \E c \in DOMAIN calls :
          /\ calls[c].pc = "fetching"
          /\ \E r \in ConcResponses(LastSent(c)) : FetchResolve(c, r)
    \/ \E c \in DOMAIN calls : FetchReject(c)
    \/ \E c \in DOMAIN calls : TimerFire(c)
    \/ \E c \in DOMAIN calls : AbortReject(c)
    \/ \E c \in DOMAIN calls : JsonResolve(c)
    \/ \E c \in DOMAIN calls : JsonReject(c)

SpecConc == InitConc /\ [][NextConc]_vars


\* The lookups called with arguments that contain reserved characters.
InitUrl ==
    /\ input \in {cfg \in ClientConfigs : cfg.chainId = None /\ cfg.guardrailId = None}
    /\ client = New(input)
    /\ calls = [c \in OneCall |-> IdleCall]
    /\ signer = NoExecutes

NextUrl ==
    \E c \in OneCall :
        \E op \in {"checkAgent", "getEvidence", "getUsage"} :
            \E id \in UrlIds : Call(c, op, [request |-> None, id |-> Some(id)])

SpecUrl == InitUrl /\ [][NextUrl]_vars

\* The life of one client: it is constructed from the caller's configuration
\* and then used for an earlier call and, once that has ended, a later call.
EarlierLater == {1, 2}

LifeConfigs ==
    [apiKey      : {Some(<<"x">>), Some(ApiKeyPrefix \o <<"x">>)},
     baseUrl     : {None},
     chainId     : ChainIdOptions,
     guardrailId : {None, Some("g1")},
     timeout     : {None}]

LifeArgsOf(op) ==
    IF op \in {"validate", "validateOrThrow"}
    THEN {[request |-> Some([from |-> Wallet(1), to |-> TargetContract,
                             data |-> Calldata, value |-> None,
                             guardrailId |-> g, chainId |-> n]),
           id |-> None] : g \in {None, Some("g2")}, n \in ChainIdOptions}
    ELSE {[request |-> None, id |-> Some(Wallet(1))]}

InitLife ==
    /\ input \in LifeConfigs
    /\ client = NotConstructed
    /\ calls = [c \in EarlierLater |-> IdleCall]
    /\ signer = NoExecutes

NextLife ==
    \/ Construct
    \/ \E c \in DOMAIN calls, op \in Ops :
          /\ c = 1 \/ calls[1].pc = "done"
          /\ \E a \in LifeArgsOf(op) : Call(c, op, a)
    \/ \E c \in DOMAIN calls :
          /\ calls[c].pc = "fetching"
          /\ \E r \in ConcResponses(LastSent(c)) : FetchResolve(c, r)
    \/ \E c \in DOMAIN calls : FetchReject(c)
    \/ \E c \in DOMAIN calls : TimerFire(c)
    \/ \E c \in DOMAIN calls : AbortReject(c)
    \/ \E c \in DOMAIN calls : JsonResolve(c)
    \/ \E c \in DOMAIN calls : JsonReject(c)

SpecLife == InitLife /\ [][NextLife]_vars

-----------------------------------------------------------------------------
(* The example signer service (src/examples/signer-service/index.ts): one   *)
(* ProofGate client, a wallet, and the handler of POST /execute             *)

\* new ProofGate({ apiKey: PROOFGATE_API_KEY, chainId: 8453 })
SignerConfig ==
    [apiKey |-> Some(ApiKeyPrefix \o <<"x">>), baseUrl |-> None,
     chainId |-> Some(8453), guardrailId |-> None, timeout |-> None]

\* account.address
AccountAddress == <<"0", "x", "s">>

NoBody == [to |-> None, data |-> None, value |-> None, guardrailId |-> None]

IdleExecute ==
    [pc |-> "idle", body |-> NoBody, transactions |-> <<>>, response |-> None]

\* req.body of the request with number c: each request names its own target.
ExecuteBodies(c) ==
    [to : {Some(Wallet(c))}, data : {None}, value : {None, Some("5")},
     guardrailId : {None}]

\* The request the handler hands to proofgate.validate().
ExecuteValidateArgs(body) ==
    [request |-> Some([from        |-> AccountAddress,
                       to          |-> The(body.to),
                       data        |-> The(OrStr(body.data, Some(<<"0", "x">>))),
                       value       |-> OrStr(body.value, Some("0")),
                       guardrailId |-> body.guardrailId,
                       chainId     |-> None]),
     id |-> None]

\* value ? parseEther(value) : 0n
TransactionValue(value) ==
    IF TruthyStr(value) THEN [amount |-> The(value), unit |-> "ether"]
    ELSE [amount |-> "0", unit |-> "wei"]

\* The argument of walletClient.sendTransaction().
Transaction(body) ==
    [to    |-> The(body.to),
     data  |-> The(OrStr(body.data, Some(<<"0", "x">>))),
     value |-> TransactionValue(body.value)]

\* res.status(status).json({ success, ... })
Respond(c, status, success) ==
    [signer EXCEPT ![c].pc = "responded",
                   ![c].response = Some([status |-> status, success |-> success])]

\* The responses the service gets from ProofGate.
SignerResponses(q) ==
    ConcResponses(q)
    \cup {[status |-> 200, body |-> NullBody],
          [status |-> 200, body |-> Body("object", None, None, None, None, None)]}

\* POST /execute arrives: the handler reads the body and logs the request.
Execute(c, body) ==
    /\ client.state = "ok"
    /\ signer[c].pc = "idle"
    /\ signer' = [signer EXCEPT ![c].pc = "validating", ![c].body = body]
    /\ UNCHANGED <<input, client, calls>>

\* A handler that signs and sends whenever validate() returned a result.
ResumeIgnoringSafe(c) ==
    /\ signer[c].pc = "validating"
    /\ calls[c].pc = "done"
    /\ LET o == calls[c].outcome IN
       signer' =
         IF o.kind = "throw" THEN Respond(c, 500, FALSE)
         ELSE IF The(o.value).kind = "null" THEN Respond(c, 500, FALSE)
         ELSE [signer EXCEPT
                 ![c].pc = "sending",
                 ![c].transactions = Append(@, Transaction(signer[c].body))]
    /\ UNCHANGED <<input, client, calls>>

\* `await proofgate.validate(...)` is over.  An error it raised, or the
\* TypeError of reading validation.result from null, goes to the catch block
\* (500); a result that is not safe is rejected (400); otherwise the handler
\* calls walletClient.sendTransaction().
Resume(c) ==
    /\ signer[c].pc = "validating"
    /\ calls[c].pc = "done"
    /\ LET o == calls[c].outcome IN
       signer' =
         IF o.kind = "throw" THEN Respond(c, 500, FALSE)
         ELSE IF The(o.value).kind = "null" THEN Respond(c, 500, FALSE)
         ELSE IF The(o.value).safe # Some(TRUE) THEN Respond(c, 400, FALSE)
         ELSE [signer EXCEPT
                 ![c].pc = "sending",
                 ![c].transactions = Append(@, Transaction(signer[c].body))]
    /\ UNCHANGED <<input, client, calls>>

\* sendTransaction() resolves with the hash: res.json({ success: true, ... }).
SendResolve(c) ==
    /\ signer[c].pc = "sending"
    /\ signer' = Respond(c, 200, TRUE)
    /\ UNCHANGED <<input, client, calls>>

\* sendTransaction() rejects: the catch block answers 500.
SendReject(c) ==
    /\ signer[c].pc = "sending"
    /\ signer' = Respond(c, 500, FALSE)
    /\ UNCHANGED <<input, client, calls>>

InitSigner ==
    /\ input = SignerConfig
    /\ client = New(input)
    /\ calls = [c \in 1..MaxCalls |-> IdleCall]
    /\ signer = [c \in 1..MaxCalls |-> IdleExecute]

NextSigner ==
    \/ \E c \in DOMAIN signer : \E body \in ExecuteBodies(c) : Execute(c, body)
    \/ \E c \in DOMAIN signer :
          /\ signer[c].pc = "validating"
          /\ Call(c, "validate", ExecuteValidateArgs(signer[c].body))
    \/ \E c \in DOMAIN calls :
          /\ calls[c].pc = "fetching"
          /\ \E r \in SignerResponses(LastSent(c)) : FetchResolve(c, r)
    \/ \E c \in DOMAIN calls : FetchReject(c)
    \/ \E c \in DOMAIN calls : TimerFire(c)
    \/ \E c \in DOMAIN calls : AbortReject(c)
    \/ \E c \in DOMAIN calls : JsonResolve(c)
    \/ \E c \in DOMAIN calls : JsonReject(c)
    \/ \E c \in DOMAIN signer : Resume(c)
    \/ \E c \in DOMAIN signer : SendResolve(c)
    \/ \E c \in DOMAIN signer : SendReject(c)

SpecSigner == InitSigner /\ [][NextSigner]_vars

-----------------------------------------------------------------------------
(* Properties *)

CallIds == DOMAIN calls
Done(c) == calls[c].pc = "done"
IsValidation(c) == calls[c].op \in {"validate", "validateOrThrow"}
Raised(c, code) ==
    /\ calls[c].outcome.kind = "throw"
    /\ calls[c].outcome.error.name = "ProofGateError"
    /\ calls[c].outcome.error.code = code

\* C1: validateOrThrow(request) sends exactly one request; when the result
\* validate() returned has safe = false it raises VALIDATION_FAILED with the
\* result's reason as message and that result attached; otherwise it returns
\* the result of validate() unchanged.
C1_ValidateOrThrow ==
    \A c \in CallIds :
        (calls[c].op = "validateOrThrow" /\ Done(c)) =>
            /\ Len(calls[c].sent) = 1
            /\ calls[c].result.kind = "return" =>
                 LET result == The(calls[c].result.value) IN
                 IF result.safe = Some(FALSE)
                 THEN /\ Raised(c, "VALIDATION_FAILED")
                      /\ calls[c].outcome.error.message = result.reason
                      /\ calls[c].outcome.error.validationResult = Some(result)
                 ELSE calls[c].outcome = Return(result)

\* C2: once the timeout of a call has elapsed with the call still waiting for
\* its response, the call eventually fails with code TIMEOUT (and so with
\* neither NETWORK_ERROR nor API_ERROR), whatever the operation.
C2_TimeoutFails ==
    \A c \in OneCall :
        (calls[c].timer = "fired") ~> (Done(c) /\ Raised(c, "TIMEOUT"))

C2_Witness ==
    \E c \in CallIds :
        /\ Done(c) /\ Raised(c, "TIMEOUT")
        /\ calls[c].timer = "fired" /\ calls[c].response = None

\* C3: a response with a non-success status that was read before the timeout
\* makes the call fail with API_ERROR carrying that status, whether its body
\* is a JSON object, JSON null or not JSON.
C3_NonSuccessIsApiError ==
    \A c \in CallIds :
        (/\ Done(c)
         /\ calls[c].response # None
         /\ calls[c].timer # "fired"
         /\ ~Ok(The(calls[c].response).status)) =>
            /\ Raised(c, "API_ERROR")
            /\ calls[c].outcome.error.statusCode = Some(The(calls[c].response).status)

\* The codes of the taxonomy as the specification lists them.
ErrorCodes ==
    {"MISSING_CREDENTIAL", "INVALID_CREDENTIAL", "VALIDATION_FAILED", "API_ERROR",
     "NETWORK_ERROR", "TIMEOUT"}

InTaxonomy(e) == e.name = "ProofGateError" /\ e.code \in ErrorCodes

\* C4: every failure of construction or of a call reaches the caller as a
\* ProofGateError whose code is one of the six codes of the taxonomy.
C4_ErrorTaxonomy ==
    /\ client.state = "failed" => InTaxonomy(client.error)
    /\ \A c \in CallIds :
           (Done(c) /\ calls[c].outcome.kind = "throw") =>
               InTaxonomy(calls[c].outcome.error)

\* Construction with the key absent or empty fails with code `missing`, with
\* a non-empty key that does not begin with p, g, _ it fails with code
\* `invalid`, and with every other key it succeeds.
ConstructorOutcome(missing, invalid) ==
    client.state # "none" =>
        IF input.apiKey = None \/ input.apiKey = Some(<<>>)
        THEN client.state = "failed" /\ client.error.code = missing
        ELSE LET k == The(input.apiKey) IN
             IF Len(k) >= 3 /\ k[1] = "p" /\ k[2] = "g" /\ k[3] = "_"
             THEN client.state = "ok" /\ client.config.apiKey = input.apiKey
             ELSE client.state = "failed" /\ client.error.code = invalid

\* C5 as stated: the codes are MISSING_CREDENTIAL and INVALID_CREDENTIAL.
C5_AsStated == ConstructorOutcome("MISSING_CREDENTIAL", "INVALID_CREDENTIAL")

\* C5, amended: construction fails with code MISSING_API_KEY when the key is
\* absent or empty, with code INVALID_API_KEY when the key is non-empty and does
\* not start with pg_, and succeeds for every key starting with pg_; the
\* missing check comes first.
C5_ConstructorCredential == ConstructorOutcome("MISSING_API_KEY", "INVALID_API_KEY")

C5_Witness ==
    /\ client.state = "failed"
    /\ client.error.code = "INVALID_API_KEY"
    /\ input.apiKey # None
    /\ Len(The(input.apiKey)) = 3

\* C6: no completed call has its timer still armed, and a call is aborted
\* only by its own timer, in every interleaving of the concurrent calls.
C6_TimerDisarmed ==
    \A c \in CallIds :
        /\ Done(c) => calls[c].timer \in {"cleared", "fired"}
        /\ calls[c].aborted => calls[c].timer = "fired"
        /\ calls[c].pc = "idle" => calls[c].timer = "unset"

C6_Witness ==
    \E c, d \in CallIds :
        /\ c # d
        /\ Done(c) /\ calls[c].timer = "cleared" /\ calls[c].outcome.kind = "return"
        /\ Done(d) /\ calls[d].timer = "fired"
        /\ Raised(d, "TIMEOUT")

\* A call that did not get a success response in time.
Failed(c) ==
    \/ calls[c].response = None
    \/ calls[c].timer = "fired"
    \/ ~Ok(The(calls[c].response).status)

\* C7: a call sends exactly one request; after a timeout, a transport failure
\* or a non-success status it sends no other and ends by raising an error.
C7_SingleRequestNoRetry ==
    \A c \in CallIds :
        /\ calls[c].pc = "idle" => Len(calls[c].sent) = 0
        /\ calls[c].pc # "idle" => Len(calls[c].sent) = 1
        /\ (Done(c) /\ Failed(c)) => calls[c].outcome.kind = "throw"

C7_Witness ==
    \E c \in CallIds :
        /\ Done(c)
        /\ Raised(c, "NETWORK_ERROR")
        /\ calls[c].response = None
        /\ Len(calls[c].sent) = 1

\* What call c ends with names c's own request and c's own response.
OwnResult(c) ==
    LET o == calls[c].outcome
        key == Some(RequestKey(LastSent(c)))
    IN  /\ o.kind = "return" =>
              /\ calls[c].response # None
              /\ The(o.value) = The(calls[c].response).body
              /\ The(o.value).validationId = key
        /\ Raised(c, "VALIDATION_FAILED") =>
              /\ calls[c].response # None
              /\ o.error.validationResult = Some(The(calls[c].response).body)
              /\ The(o.error.validationResult).validationId = key
        /\ Raised(c, "API_ERROR") =>
              /\ calls[c].response # None
              /\ o.error.statusCode = Some(The(calls[c].response).status)
        /\ Raised(c, "TIMEOUT") <=> calls[c].timer = "fired"

\* C8: with several calls in flight on one client, each call ends with the
\* response or the error of its own request, and a step of one call (its
\* response, its failure, its timeout) changes nothing of another call.
C8_NoCrossDelivery ==
    /\ [](\A c \in 1..MaxCalls : Done(c) => OwnResult(c))
    /\ [][\A c, d \in 1..MaxCalls :
              (c # d /\ calls'[c] # calls[c]) => calls'[d] = calls[d]]_vars

C8_Witness ==
    \E c, d \in CallIds :
        /\ c # d
        /\ calls[c].op = "validate" /\ calls[d].op = "validate"
        /\ Done(c) /\ calls[c].outcome.kind = "return"
        /\ Done(d) /\ Raised(d, "TIMEOUT")
        /\ The(calls[c].outcome.value).validationId = Some(Wallet(c))

\* C9: when the request of a validation omits the chain id (the guardrail id),
\* the body sent carries the chain id (guardrail id) of the client's
\* configuration: the one given at construction, or else chain id 56 and no
\* guardrail id.
C9_ConfiguredDefaults ==
    \A c \in CallIds :
        (IsValidation(c) /\ calls[c].pc # "idle") =>
            LET request == The(calls[c].args.request)
                body == The(LastSent(c).body)
            IN  /\ request.chainId = None =>
                      /\ body.chainId = client.config.chainId
                      /\ body.chainId = IF input.chainId = None
                                        THEN Some(56) ELSE input.chainId
                /\ request.guardrailId = None =>
                      /\ body.guardrailId = client.config.guardrailId
                      /\ body.guardrailId = input.guardrailId

C9_Witness ==
    \E c \in CallIds :
        /\ IsValidation(c) /\ calls[c].pc # "idle"
        /\ The(calls[c].args.request).chainId = None
        /\ The(calls[c].args.request).guardrailId = None
        /\ input.chainId = Some(1)
        /\ input.guardrailId = Some("g1")
        /\ The(LastSent(c).body).chainId = Some(1)
        /\ The(LastSent(c).body).guardrailId = Some("g1")

\* C10: when the request of a validation gives a chain id or a guardrail id,
\* whatever its value (chain id 0 and the empty guardrail id included), the
\* body sent carries the request's value.
C10_RequestOverrides ==
    \A c \in CallIds :
        (IsValidation(c) /\ calls[c].pc # "idle") =>
            LET request == The(calls[c].args.request)
                body == The(LastSent(c).body)
            IN  /\ request.chainId # None => body.chainId = request.chainId
                /\ request.guardrailId # None => body.guardrailId = request.guardrailId

\* The body a validation sent and the request it was called with.
SentBody(c) == The(LastSent(c).body)
CalledWith(c) == The(calls[c].args.request)

\* C11 as stated: a request without value is sent with value "0", a request
\* with a value is sent with that value, and from, to and data are sent as
\* given.
C11_AsStated ==
    \A c \in CallIds :
        (IsValidation(c) /\ calls[c].pc # "idle") =>
            /\ CalledWith(c).value = None => SentBody(c).value = Some("0")
            /\ CalledWith(c).value # None => SentBody(c).value = CalledWith(c).value
            /\ SentBody(c).from = CalledWith(c).from
            /\ SentBody(c).to = CalledWith(c).to
            /\ SentBody(c).data = CalledWith(c).data

\* C11, amended: a request without value, or with the empty string as value,
\* is sent with value "0"; a request with a non-empty value is sent with that
\* value; from, to and data are always sent as given.
C11_ValueDefault ==
    \A c \in CallIds :
        (IsValidation(c) /\ calls[c].pc # "idle") =>
            /\ CalledWith(c).value \in {None, Some("")} =>
                   SentBody(c).value = Some("0")
            /\ CalledWith(c).value \notin {None, Some("")} =>
                   SentBody(c).value = CalledWith(c).value
            /\ SentBody(c).from = CalledWith(c).from
            /\ SentBody(c).to = CalledWith(c).to
            /\ SentBody(c).data = CalledWith(c).data

C11_Witness ==
    \E c \in CallIds :
        /\ calls[c].op = "validate" /\ calls[c].pc # "idle"
        /\ CalledWith(c).value = None
        /\ SentBody(c).value = Some("0")
        /\ SentBody(c).from = Wallet(1)

\* C12: the wallet address checkAgent() was called with and the id
\* getEvidence() was called with are what the receiving side reads back from
\* the URL of the request, reserved characters included.
C12_UrlEscaped ==
    \A c \in CallIds :
        calls[c].pc # "idle" =>
            /\ calls[c].op = "checkAgent" =>
                   ReceivedWallet(LastSent(c).url) = The(calls[c].args.id)
            /\ calls[c].op = "getEvidence" =>
                   ReceivedEvidenceId(LastSent(c).url) = The(calls[c].args.id)

\* The body of the response call c has read.
ReadBody(c) == The(calls[c].response).body

\* C13 as stated: the message of an API_ERROR is the body's error field when
\* the body has one, else its message field when it has one, else
\* 'HTTP <status>'.
C13_AsStated ==
    \A c \in CallIds :
        (Done(c) /\ Raised(c, "API_ERROR")) =>
            calls[c].outcome.error.message =
                IF ReadBody(c).error # None THEN ReadBody(c).error
                ELSE IF ReadBody(c).message # None THEN ReadBody(c).message
                ELSE IF The(calls[c].response).status = 429 THEN Some("HTTP 429")
                ELSE None

\* C13, amended: the message of an API_ERROR is the body's error field when
\* that is a non-empty string, else its message field when that is a
\* non-empty string, else 'HTTP <status>'; a 429 response with body
\* {"error": "rate limited"} gives message "rate limited" and statusCode 429.
C13_ApiErrorMessage ==
    \A c \in CallIds :
        (Done(c) /\ Raised(c, "API_ERROR")) =>
            /\ calls[c].outcome.error.message =
                   IF ReadBody(c).error \notin {None, Some("")} THEN ReadBody(c).error
                   ELSE IF ReadBody(c).message \notin {None, Some("")}
                        THEN ReadBody(c).message
                   ELSE IF The(calls[c].response).status = 429 THEN Some("HTTP 429")
                   ELSE None
            /\ calls[c].outcome.error.statusCode = Some(The(calls[c].response).status)

C13_Witness ==
    \E c \in CallIds :
        /\ Done(c) /\ Raised(c, "API_ERROR")
        /\ The(calls[c].response).status = 429
        /\ ReadBody(c).error = Some("rate limited")
        /\ calls[c].outcome.error.message = Some("rate limited")
        /\ calls[c].outcome.error.statusCode = Some(429)

\* Call c ended because the transport failed: fetch() rejected although the
\* client had not aborted the request.
TransportFailed(c) ==
    /\ Done(c)
    /\ calls[c].response = None
    /\ ~calls[c].aborted

\* C14: a call whose request fails in the transport, other than by the
\* client's own timeout abort, raises NETWORK_ERROR with no statusCode and no
\* validation result.
C14_TransportFailure ==
    \A c \in CallIds :
        TransportFailed(c) =>
            /\ Raised(c, "NETWORK_ERROR")
            /\ calls[c].outcome.error.statusCode = None
            /\ calls[c].outcome.error.validationResult = None

C14_Witness ==
    \E c \in CallIds :
        /\ TransportFailed(c)
        /\ calls[c].op = "validateOrThrow"
        /\ calls[c].timer = "cleared"
        /\ calls[c].outcome.error.code = "NETWORK_ERROR"
        /\ calls[c].outcome.error.message = Some("fetch failed")

\* C15: every client the constructor accepts holds a timeout greater than 0
\* (the model's timeouts are integers, so each is finite).
C15_PositiveTimeout ==
    client.state = "ok" => The(client.config.timeout) > 0

\* The defaults a client constructed from the caller's configuration holds.
MergedDefaults(cfg) ==
    [apiKey      |-> cfg.apiKey,
     baseUrl     |-> IF cfg.baseUrl = None
                     THEN Some(<<"https://www.proofgate.xyz/api">>) ELSE cfg.baseUrl,
     chainId     |-> IF cfg.chainId = None THEN Some(56) ELSE cfg.chainId,
     guardrailId |-> cfg.guardrailId,
     timeout     |-> IF cfg.timeout = None THEN Some(30000) ELSE cfg.timeout]

\* C16: no step changes the caller's configuration, and no step after the
\* construction changes the client's merged configuration; the client holds
\* the defaults merged from the caller's configuration at every moment, and a
\* validation that omits the chain id or the guardrail id is sent with those
\* defaults whatever the calls before it carried.
C16_ConfigurationFrame ==
    /\ [](client.state = "ok" =>
            /\ client.config = MergedDefaults(input)
            /\ \A c \in CallIds :
                  (IsValidation(c) /\ calls[c].pc # "idle") =>
                      /\ CalledWith(c).chainId = None =>
                             SentBody(c).chainId = MergedDefaults(input).chainId
                      /\ CalledWith(c).guardrailId = None =>
                             SentBody(c).guardrailId = MergedDefaults(input).guardrailId)
    /\ [][/\ input' = input
          /\ client.state = "ok" => client' = client]_vars

\* A later validation without a chain id, after an earlier one that carried
\* its own chain id and guardrail id.
C16_Witness ==
    /\ client.state = "ok"
    /\ input.chainId = None
    /\ calls[1].op = "validate" /\ Done(1)
    /\ CalledWith(1).chainId = Some(1)
    /\ CalledWith(1).guardrailId = Some("g2")
    /\ calls[2].op = "validate" /\ Done(2)
    /\ CalledWith(2).chainId = None
    /\ SentBody(2).chainId = Some(56)

\* validate() for request c has returned a result with safe = true.
ValidatedSafe(c) ==
    /\ Done(c)
    /\ calls[c].op = "validate"
    /\ CalledWith(c).to = The(signer[c].body.to)
    /\ calls[c].outcome.kind = "return"
    /\ The(calls[c].outcome.value).kind = "object"
    /\ The(calls[c].outcome.value).safe = Some(TRUE)

\* C19: the signer service sends a transaction for a POST /execute request
\* only after the validate() call it made for that request returned safe =
\* true, and it sends at most that request's transaction; when validate()
\* returned safe = false or raised an error the response is unsuccessful.
C19_SendOnlyIfSafe ==
    \A c \in DOMAIN signer :
        /\ signer[c].transactions # <<>> =>
               /\ ValidatedSafe(c)
               /\ Len(signer[c].transactions) = 1
               /\ signer[c].transactions[1].to = The(signer[c].body.to)
        /\ (signer[c].pc = "responded" /\ ~ValidatedSafe(c)) =>
               /\ ~The(signer[c].response).success
               /\ The(signer[c].response).status \in {400, 500}

C19_Witness ==
    \E c \in DOMAIN signer, d \in DOMAIN signer :
        /\ signer[c].pc = "responded" /\ The(signer[c].response).success
        /\ signer[c].transactions # <<>>
        /\ signer[d].pc = "responded" /\ The(signer[d].response).status = 400
        /\ The(calls[d].outcome.value).safe = Some(FALSE)
        /\ signer[d].transactions = <<>>

\* The base URL the requests of a client constructed from cfg go to.
BaseOf(cfg) ==
    IF cfg.baseUrl = None THEN <<"https://www.proofgate.xyz/api">> ELSE The(cfg.baseUrl)

\* C17: every request a public operation sends carries the API key in the
\* credential header; validate and validateOrThrow send POST <base>/validate
\* with a body, checkAgent sends GET <base>/agents/check?wallet=<addr>,
\* getEvidence sends GET <base>/evidence/<id>, getUsage sends GET
\* <base>/validate?wallet=<addr>, and the GET requests have no body.
C17_RequestShape ==
    \A c \in CallIds :
        calls[c].pc # "idle" =>
            LET q == LastSent(c)
                arg == The(calls[c].args.id)
            IN  /\ q.headers.apiKey = The(input.apiKey)
                /\ q.headers.contentType = "application/json"
                /\ IsValidation(c) =>
                       /\ q.method = "POST"
                       /\ q.url = BaseOf(input) \o <<"/validate">>
                       /\ q.body # None
                       /\ The(q.body).from = CalledWith(c).from
                /\ calls[c].op = "checkAgent" =>
                       /\ q.method = "GET"
                       /\ q.url = BaseOf(input) \o <<"/agents/check?wallet=">> \o arg
                       /\ q.body = None
                /\ calls[c].op = "getEvidence" =>
                       /\ q.method = "GET"
                       /\ q.url = BaseOf(input) \o <<"/evidence/">> \o arg
                       /\ q.body = None
                /\ calls[c].op = "getUsage" =>
                       /\ q.method = "GET"
                       /\ q.url = BaseOf(input) \o <<"/validate?wallet=">> \o arg
                       /\ q.body = None

C17_Witness ==
    \E c \in CallIds :
        /\ calls[c].op = "getUsage" /\ calls[c].pc = "fetching"
        /\ LastSent(c).method = "GET"
        /\ LastSent(c).url = <<"http://mock", "/validate?wallet=", "0", "x", "2">>
        /\ LastSent(c).body = None
        /\ LastSent(c).headers.apiKey = <<"p", "g", "_", "x">>

\* Call c has read a success response whose body is a validation result.
ReadValidationResult(c) ==
    /\ Done(c)
    /\ calls[c].response # None
    /\ ~calls[c].aborted
    /\ The(calls[c].response).status = 200
    /\ ReadBody(c).kind = "object"
    /\ ReadBody(c).safe \in {Some(TRUE), Some(FALSE)}

\* C18: when validate() reads a 200 response whose body is a well-formed
\* validation result, it returns a value equal to that body in every field.
C18_ResultAsReceived ==
    \A c \in CallIds :
        (calls[c].op = "validate" /\ ReadValidationResult(c)) =>
            /\ calls[c].outcome.kind = "return"
            /\ The(calls[c].outcome.value) = ReadBody(c)
            /\ \A f \in {"safe", "reason", "error", "message", "validationId"} :
                   The(calls[c].outcome.value)[f] = ReadBody(c)[f]

C18_Witness ==
    \E c \in CallIds :
        /\ calls[c].op = "validate" /\ ReadValidationResult(c)
        /\ ReadBody(c).safe = Some(TRUE)
        /\ ReadBody(c).message = Some("slow down")
        /\ The(calls[c].outcome.value).reason = Some("policy violation")

=============================================================================
